---- MODULE Spec2Model ----
(***************************************************************************)
(* Model of the audio playback engine of local-music-player                *)
(* (src/rust/local-music-player/src-tauri/src/audio_player.rs): the        *)
(* AudioPlayer facade, the command channel, the audio_thread actor loop,   *)
(* its command handlers and the periodic position tick.                    *)
(*                                                                         *)
(* Encodings.                                                              *)
(*  - Option<T> is a sequence of length <= 1: <<>> is None, <<x>> Some(x). *)
(*  - f32 volumes are records [nan, v]; v counts tenths (10 is 1.0) and    *)
(*    nan marks the IEEE NaN, on which every comparison is false.          *)
(*  - f64 times (current_time, duration, elapsed) count quarter seconds.   *)
(*  - Option<Instant> playback_start_time is Some(e), e the wall-clock     *)
(*    time elapsed since the instant was taken (start_time.elapsed()).     *)
(***************************************************************************)
EXTENDS Integers, Sequences, FiniteSets

\* ------------------------------------------------------------------ bounds
\* Total number of commands the callers enqueue in one behaviour.
MaxCmds == 3
\* Longest wall-clock time (quarter seconds) that passes between two resets
\* of playback_start_time.
MaxElapsed == 2
\* Most events counted as waiting in the event channel (the count saturates).
MaxUndelivered == 2
\* Bytes try_skip_header_decoder reads into its scan buffer; stands for the
\* 1024 of the source, scaled down.
ScanWindow == 6

\* -------------------------------------------------------- program constants
\* The 0.5 s debounce of PositionChanged, in quarter seconds.
PositionThreshold == 2
\* The bytes the sync scan leaves unexamined at the end of its buffer.
ScanMargin == 4

\* ------------------------------------------------------------- input sets
Callers == {"c1", "c2"}

F(x) == [nan |-> FALSE, v |-> x]
NaN == [nan |-> TRUE, v |-> 0]

\* Values handed to set_volume: below 0, 0.5, above 1, and NaN.
VolumeInputs == {F(0 - 5), F(5), F(15), NaN}
\* The volumes the concurrent-access test passes: (i as f32) / 10.0, i in 0..10.
TestVolumes == {F(i) : i \in 0..9}

\* Tracks handed to play_track; file is what the path holds on disk ("vanishing":
\* a file there at the exists() check and gone at the metadata() call). duration
\* is the f64 field of Track, which nothing on the way to the actor validates.
Tracks ==
  { [id |-> "a", duration |-> 3, file |-> "ok"],
    [id |-> "b", duration |-> 5, file |-> "ok"],
    [id |-> "n", duration |-> 0 - 1, file |-> "ok"],
    [id |-> "m", duration |-> 3, file |-> "missing"],
    [id |-> "e", duration |-> 3, file |-> "empty"],
    [id |-> "x", duration |-> 3, file |-> "corrupt"],
    [id |-> "v", duration |-> 3, file |-> "vanishing"] }

SeekPositions == {0, 30}

VARIABLES
  actorPc,       \* where audio_thread is: init, select, play_io, no_device, panicked, stopped
  cur,           \* Option: the PlayTrack command handle_play_track is working on
  queue,         \* the unbounded command channel, oldest first
  chanClosed,    \* the command receiver has been dropped
  handlesDropped,\* every AudioPlayer handle (command sender) has been dropped
  current_sink,  \* Option<Sink> owned by audio_thread
  state,         \* AudioPlayerState behind the mutex
  last_position, \* audio_thread's local last_position
  callerPc,      \* per caller: idle or waiting (blocked on response_rx)
  slot,          \* per caller: the oneshot reply slot of its outstanding command
  events,        \* output of the last step: the events it sent to event_sender
  returned,      \* output of the last step: Option, the facade call that returned in it
  sent,          \* history: number of commands enqueued so far (arrival stamp)
  handledSeq,    \* history: arrival stamp of the last command dequeued
  replyCount,    \* history: per caller, response.send calls on its outstanding slot
  errorEvents,   \* history: number of Error events sent so far
  failed,        \* history: some command has been answered with an error
  consumer,      \* what the holder of the event receiver does: draining, lagging, gone
  undelivered,   \* events waiting in the event channel (saturating count)
  stream,        \* history: what the events sent so far say about the track session
  file,          \* the path handed to validate_audio_file / create_robust_decoder
  probe          \* Option: the last call on file and what it returned

chanVars == <<queue, chanClosed, handlesDropped>>
engineVars == <<current_sink, state, last_position>>
histVars == <<sent, handledSeq, replyCount, errorEvents, failed>>
eventVars == <<consumer, undelivered, stream>>
fileVars == <<file, probe>>

vars == <<actorPc, cur, queue, chanClosed, handlesDropped, current_sink, state,
          last_position, callerPc, slot, events, returned, sent, handledSeq,
          replyCount, errorEvents, failed, consumer, undelivered, stream, file, probe>>

\* ------------------------------------------------------------ f32 and Option
None == <<>>
Some(x) == <<x>>
IsSome(o) == Len(o) > 0
Unwrap(o) == o[1]

\* f32 comparisons: false as soon as one side is NaN.
FLe(a, b) == ~a.nan /\ ~b.nan /\ a.v <= b.v
FLt(a, b) == ~a.nan /\ ~b.nan /\ a.v < b.v

\* f32::clamp(self, min, max): max if self > max, min if self < min, else self
\* (so NaN is returned unchanged).
clamp(x, lo, hi) == IF FLt(x, lo) THEN lo ELSE IF FLt(hi, x) THEN hi ELSE x

\* f32 ==, as assert_eq! compares volumes: false as soon as one side is NaN.
FEq(a, b) == ~a.nan /\ ~b.nan /\ a.v = b.v

\* lo <= x && x <= hi, as the integration test asserts it.
InRange(x, lo, hi) == FLe(lo, x) /\ FLe(x, hi)

\* ------------------------------------------------------------------ results
Ok == "Ok"
ErrNotRunning == "Err(Playback: Audio thread is not running)"
ErrNoResponse == "Err(Playback: Failed to receive response from audio thread)"
ErrSink == "Err(Playback: Failed to create sink)"
ErrNotFound == "Err(Playback: Audio file not found)"
ErrEmpty == "Err(Playback: Audio file is empty)"
ErrDecode == "Err(Playback: Failed to decode audio file)"
ErrSeek == "Err(Playback: Seeking is not supported in the current rodio version)"
ErrFileSystem == "Err(FileSystem)"
PlaybackErrors == {ErrSink, ErrNotFound, ErrEmpty, ErrDecode, ErrSeek}
HandlerErrors == PlaybackErrors \cup {ErrFileSystem}

\* ------------------------------------------------------------------- events
Ev(t) == [type |-> t]
EvTrack(t, tr) == [type |-> t, track |-> tr]
EvPos(p) == [type |-> "PositionChanged", position |-> p]
EvVol(v) == [type |-> "VolumeChanged", volume |-> v]

\* ---------------------------------------------------------------- the files
\* A path as validate_audio_file and create_robust_decoder see it: on_disk is
\* what the path holds ("vanishing": there at exists(), gone at metadata());
\* ext is path.extension().and_then(to_str), None when the name has none; can
\* says, for each decode strategy, whether it would accept the bytes.
Extensions == {"mp3", "MP3", "flac", "wav", "ogg", "m4a", "txt"}

Files ==
  [ on_disk : {"missing", "vanishing", "empty", "data"},
    ext : {None} \cup {Some(x) : x \in Extensions},
    can : [standard : BOOLEAN, buffered : BOOLEAN, validated : BOOLEAN, skip_header : BOOLEAN] ]

\* A file every strategy accepts; what file holds while no file is examined.
SoundFile ==
  [ on_disk |-> "data", ext |-> Some("mp3"),
    can |-> [standard |-> TRUE, buffered |-> TRUE, validated |-> TRUE, skip_header |-> TRUE] ]

\* File::open and the decoding need the bytes to be there.
Readable(f) == f.on_disk = "data"

try_standard_decoder(f) == Readable(f) /\ f.can.standard
try_buffered_decoder(f) == Readable(f) /\ f.can.buffered
try_validated_decoder(f) == Readable(f) /\ f.can.validated
try_skip_header_decoder(f) == Readable(f) /\ f.can.skip_header

\* What a run of the chain did: the strategies attempted, in order, and the one
\* whose decoder is returned ("none": the aggregated failure).
Resolved(tried, decoder) == [tried |-> tried, decoder |-> decoder]

\* Mutant of create_robust_decoder_chain: the large-buffer strategy goes first.
create_robust_decoder_buffered_first(f) ==
  IF try_buffered_decoder(f) THEN Resolved(<<"buffered">>, "buffered")
  ELSE IF try_standard_decoder(f) THEN Resolved(<<"buffered", "standard">>, "standard")
  ELSE IF try_validated_decoder(f)
    THEN Resolved(<<"buffered", "standard", "validated">>, "validated")
  ELSE IF try_skip_header_decoder(f)
    THEN Resolved(<<"buffered", "standard", "validated", "skip_header">>, "skip_header")
  ELSE Resolved(<<"buffered", "standard", "validated", "skip_header">>, "none")

\* create_robust_decoder, strategy by strategy.
create_robust_decoder_chain(f) ==
  IF try_standard_decoder(f) THEN Resolved(<<"standard">>, "standard")
  ELSE IF try_buffered_decoder(f) THEN Resolved(<<"standard", "buffered">>, "buffered")
  ELSE IF try_validated_decoder(f)
    THEN Resolved(<<"standard", "buffered", "validated">>, "validated")
  ELSE IF try_skip_header_decoder(f)
    THEN Resolved(<<"standard", "buffered", "validated", "skip_header">>, "skip_header")
  ELSE Resolved(<<"standard", "buffered", "validated", "skip_header">>, "none")

\* str::to_lowercase on the extensions that occur.
to_lowercase(x) == IF x = "MP3" THEN "mp3" ELSE x

supported_extensions == {"mp3", "flac", "wav", "ogg", "m4a"}

ErrUnsupported == "Err(Playback: Unsupported audio format)"
ErrCannotDecode == "Err(Playback: Cannot decode audio file)"

validate_audio_file(f) ==
  IF f.on_disk = "missing" THEN ErrNotFound
  ELSE IF f.on_disk = "vanishing" THEN ErrFileSystem
  ELSE IF f.on_disk = "empty" THEN ErrEmpty
  ELSE IF IsSome(f.ext) /\ to_lowercase(Unwrap(f.ext)) \notin supported_extensions
    THEN ErrUnsupported
  ELSE IF create_robust_decoder_chain(f).decoder = "none" THEN ErrCannotDecode
  ELSE Ok

\* ----------------------------------------------------------- files as bytes
\* Byte values that the sync test tells apart: 0xFF, 0xE0 (high 3 bits set, not
\* 0xFF), 0x00.
ByteValues == {255, 224, 0}

\* A file as try_skip_header_decoder sees it: its bytes, and the offsets at which
\* Decoder::new accepts a reader positioned there.
ByteFiles ==
  { f \in [ bytes : UNION {[1..n -> ByteValues] : n \in 0..(ScanWindow + 1)},
            decodes : {d \in SUBSET (0..(ScanWindow - 1)) : Cardinality(d) <= 2} ] :
      \A k \in f.decodes : k < Len(f.bytes) }

\* buffer[i] == 0xFF && (buffer[i + 1] & 0xE0) == 0xE0, i counted from 0.
IsSync(buffer, i) == buffer[i + 1] = 255 /\ (buffer[i + 2] \div 32) = 7

Least(S) == CHOOSE k \in S : \A j \in S : k <= j

SkipErr(msg) == [ok |-> FALSE, error |-> msg]
\* The decoder returned: it reads a handle opened for this attempt from which
\* skipped bytes have been read and discarded.
SkipOk(k) == [ok |-> TRUE, skipped |-> k, fresh_handle |-> TRUE]

\* try_skip_header_decoder, byte by byte.
try_skip_header_decoder_scan(f) ==
  IF Len(f.bytes) < ScanWindow THEN SkipErr("read_exact: UnexpectedEof")
  ELSE LET buffer == SubSeq(f.bytes, 1, ScanWindow)
           hits == { i \in 0..(Len(buffer) - ScanMargin - 1) :
                       IsSync(buffer, i) /\ i \in f.decodes }
       IN IF hits = {} THEN SkipErr("Could not find valid MP3 frame in first 1KB")
          ELSE SkipOk(Least(hits))

\* -------------------------------------------------------- leading tag size
\* The u32 arithmetic of parse_id3v2_size: bitwise or, and shifts of a byte by
\* at most 21 bits, which stay below 2^29 and so never wrap in 32 bits.
RECURSIVE BitOr(_, _)
BitOr(a, b) ==
  IF a = 0 THEN b
  ELSE IF b = 0 THEN a
  ELSE (IF a % 2 = 1 \/ b % 2 = 1 THEN 1 ELSE 0) + 2 * BitOr(a \div 2, b \div 2)
Shl(x, n) == x * 2^n

parse_id3v2_size(bytes) ==
  BitOr(BitOr(BitOr(Shl(bytes[1], 21), Shl(bytes[2], 14)), Shl(bytes[3], 7)), bytes[4])

\* Values of a size byte: the ends of 0..255 and both sides of the 7-bit limit.
SizeByteValues == {0, 1, 127, 128, 129, 255}

\* The head of a file as analyze_mp3_file reads it: whether it starts with
\* "ID3", and bytes 6..9 of it.
TaggedFiles == [id3 : BOOLEAN, size_bytes : [1..4 -> SizeByteValues]]

\* The tag check of analyze_mp3_file: has_id3v2 and first_frame_offset.
TagInfo(f) ==
  IF f.id3
    THEN [has_id3v2 |-> TRUE, first_frame_offset |-> Some(10 + parse_id3v2_size(f.size_bytes))]
    ELSE [has_id3v2 |-> FALSE, first_frame_offset |-> None]

\* -------------------------------------------------------- the event stream
\* What the events sent so far say, kept where recorded is set from the start
\* (and left as it is elsewhere): started, a TrackStarted has been sent and no
\* TrackStopped after it; paused, a TrackPaused has been sent and neither
\* TrackResumed nor TrackStarted after it; finished, a TrackFinished has been
\* sent since the last TrackStarted or TrackStopped, and refinished, a further
\* one after it;
\* played, the wall-clock time (quarter seconds) that has passed with a start
\* instant set, that is in the playing state, since the last TrackStarted
\* (kept only where timed is set from the start).
NoStream ==
  [ recorded |-> FALSE, started |-> FALSE, paused |-> FALSE, finished |-> FALSE,
    refinished |-> FALSE, timed |-> FALSE, played |-> 0 ]
RecordedStream == [NoStream EXCEPT !.recorded = TRUE]
TimedStream == [RecordedStream EXCEPT !.timed = TRUE]

Note(s, e) ==
  IF ~s.recorded THEN s
  ELSE IF e.type = "TrackStarted"
    THEN [RecordedStream EXCEPT !.started = TRUE, !.timed = s.timed]
  ELSE IF e.type = "TrackStopped"
    THEN [s EXCEPT !.started = FALSE, !.finished = FALSE, !.refinished = FALSE]
  ELSE IF e.type = "TrackPaused" THEN [s EXCEPT !.paused = TRUE]
  ELSE IF e.type = "TrackResumed" THEN [s EXCEPT !.paused = FALSE]
  ELSE IF e.type = "TrackFinished"
    THEN [s EXCEPT !.finished = TRUE, !.refinished = s.finished]
  ELSE s

RECURSIVE NoteAll(_, _)
NoteAll(s, evs) == IF evs = <<>> THEN s ELSE NoteAll(Note(s, Head(evs)), Tail(evs))

\* ---------------------------------------------------------------- the state
InitState ==
  [ current_track |-> None,
    is_playing |-> FALSE,
    volume |-> F(10),
    current_time |-> 0,
    duration |-> 0,
    playback_start_time |-> None ]

\* What get_playback_state copies out of the locked state.
PlaybackStateOf(s) ==
  [ current_track |-> s.current_track,
    is_playing |-> s.is_playing,
    current_time |-> s.current_time,
    duration |-> s.duration,
    volume |-> s.volume ]

Init ==
  /\ actorPc = "init"
  /\ cur = None
  /\ queue = <<>>
  /\ chanClosed = FALSE
  /\ handlesDropped = FALSE
  /\ current_sink = None
  /\ state = InitState
  /\ last_position = 0
  /\ callerPc = [c \in Callers |-> "idle"]
  /\ slot = [c \in Callers |-> "empty"]
  /\ events = <<>>
  /\ returned = None
  /\ sent = 0
  /\ handledSeq = 0
  /\ replyCount = [c \in Callers |-> 0]
  /\ errorEvents = 0
  /\ failed = FALSE
  /\ consumer = "draining"
  /\ undelivered = 0
  /\ stream = NoStream
  /\ file = SoundFile
  /\ probe = None

\* ------------------------------------------------------------------- facade
\* A facade call of caller c returns value v.
Return(c, op, v) == Some([caller |-> c, op |-> op, value |-> v])

\* One facade round trip up to the send: command_sender.send(..) fails when the
\* receiver is gone and the call returns at once; otherwise the command (with
\* its fresh reply slot) is queued and the caller blocks on response_rx.
RoundTrip(c, kind, arg) ==
  /\ callerPc[c] = "idle"
  /\ ~handlesDropped
  /\ IF chanClosed
       THEN /\ returned' = Return(c, kind, ErrNotRunning)
            /\ UNCHANGED <<queue, callerPc, slot, sent, replyCount>>
       ELSE /\ sent < MaxCmds
            /\ queue' = Append(queue, [kind |-> kind, arg |-> arg, caller |-> c, seq |-> sent + 1])
            /\ sent' = sent + 1
            /\ slot' = [slot EXCEPT ![c] = "pending"]
            /\ replyCount' = [replyCount EXCEPT ![c] = 0]
            /\ callerPc' = [callerPc EXCEPT ![c] = "waiting"]
            /\ returned' = None
  /\ events' = <<>>
  /\ UNCHANGED <<fileVars, eventVars, actorPc, cur, chanClosed, handlesDropped, engineVars, handledSeq,
                 errorEvents, failed>>

play_track(c, track) == RoundTrip(c, "PlayTrack", track)
pause_playback(c) == RoundTrip(c, "Pause", 0)
resume_playback(c) == RoundTrip(c, "Resume", 0)
stop_playback(c) == RoundTrip(c, "Stop", 0)
seek_to(c, position) == RoundTrip(c, "Seek", position)
set_volume(c, volume) == RoundTrip(c, "SetVolume", volume)

\* The caller's wait on response_rx ends: with the value sent, or, when the sender
\* was dropped unsent, with the no-response error.
AwaitResponse(c) ==
  /\ callerPc[c] = "waiting"
  /\ slot[c] # "pending"
  /\ callerPc' = [callerPc EXCEPT ![c] = "idle"]
  /\ returned' = Return(c, "round_trip", IF slot[c] = "closed" THEN ErrNoResponse ELSE slot[c])
  /\ slot' = [slot EXCEPT ![c] = "empty"]
  /\ replyCount' = [replyCount EXCEPT ![c] = 0]
  /\ events' = <<>>
  /\ UNCHANGED <<fileVars, eventVars, actorPc, cur, chanVars, engineVars, sent, handledSeq, errorEvents, failed>>

\* is_finished(): !state.is_playing && state.current_track.is_none().
is_finished(st) == ~st.is_playing /\ ~IsSome(st.current_track)

\* Mutant of StateLocked: handle_play_track takes the state lock on entry and
\* keeps the guard until it returns.
StateLockedDuringPlayTrack == actorPc = "play_io"

\* The actor holds the state mutex. Every lock() of the handlers and of
\* update_position is released within the step that takes it; handle_play_track
\* takes it only after the file checks and the decoding, to read the volume and
\* to write the new state.
StateLocked == FALSE

\* get_playback_state: lock, copy the fields, unlock.
get_playback_state(c) ==
  /\ callerPc[c] = "idle"
  /\ ~handlesDropped
  /\ ~StateLocked
  /\ returned' = Return(c, "get_playback_state", PlaybackStateOf(state))
  /\ events' = <<>>
  /\ UNCHANGED <<fileVars, eventVars, actorPc, cur, chanVars, engineVars, callerPc, slot, histVars>>

\* The last AudioPlayer clone goes out of scope: the command sender is dropped.
\* The blocking facade calls borrow the handle, so no call is outstanding then.
DropHandles ==
  /\ ~handlesDropped
  /\ \A c \in Callers : callerPc[c] = "idle"
  /\ handlesDropped' = TRUE
  /\ events' = <<>>
  /\ returned' = None
  /\ UNCHANGED <<fileVars, eventVars, actorPc, cur, queue, chanClosed, engineVars, callerPc, slot, histVars>>

\* Wall-clock time passes: start_time.elapsed() grows.
TimePasses ==
  /\ IsSome(state.playback_start_time)
  /\ Unwrap(state.playback_start_time) < MaxElapsed
  /\ state' = [state EXCEPT !.playback_start_time = Some(Unwrap(@) + 1)]
  /\ stream' = [stream EXCEPT !.played = IF stream.timed THEN @ + 1 ELSE @]
  /\ events' = <<>>
  /\ returned' = None
  /\ UNCHANGED <<fileVars, consumer, undelivered, actorPc, cur, chanVars, current_sink, last_position, callerPc, slot,
                 histVars>>

\* ------------------------------------------------------------- file checks
\* A call of validate_audio_file(file).
ValidateFile ==
  /\ probe' = Some([op |-> "validate_audio_file", result |-> validate_audio_file(file)])
  /\ UNCHANGED <<file, eventVars, actorPc, cur, chanVars, engineVars, callerPc, slot,
                 events, returned, histVars>>

\* A call of create_robust_decoder(file).
ResolveDecoder ==
  /\ probe' = Some([op |-> "create_robust_decoder", result |-> create_robust_decoder_chain(file)])
  /\ UNCHANGED <<file, eventVars, actorPc, cur, chanVars, engineVars, callerPc, slot,
                 events, returned, histVars>>

\* A call of try_skip_header_decoder(file), file given byte by byte.
SkipHeaderScan ==
  /\ probe' = Some([op |-> "try_skip_header_decoder", result |-> try_skip_header_decoder_scan(file)])
  /\ UNCHANGED <<file, eventVars, actorPc, cur, chanVars, engineVars, callerPc, slot,
                 events, returned, histVars>>

\* The tag check at the start of analyze_mp3_file(file).
AnalyzeTag ==
  /\ probe' = Some([op |-> "analyze_mp3_file", result |-> TagInfo(file)])
  /\ UNCHANGED <<file, eventVars, actorPc, cur, chanVars, engineVars, callerPc, slot,
                 events, returned, histVars>>

\* ----------------------------------------------------------- event channel
\* Mutant of EventSendWaits: the event channel is bounded, and a send into a
\* full channel waits for the consumer.
EventSendWaitsWhenFull == consumer = "lagging" /\ undelivered >= MaxUndelivered

\* UnboundedSender::send never waits, whatever the receiver does.
EventSendWaits == FALSE

\* let _ = event_sender.send(..) for each event of evs: an event is queued for
\* the receiver (a draining consumer takes it at once, a lagging one leaves it
\* waiting); with the receiver gone send returns Err, which is discarded.
Deliver(evs) ==
  /\ evs # <<>> => ~EventSendWaits
  /\ undelivered' =
       IF consumer = "lagging"
         THEN (IF undelivered + Len(evs) > MaxUndelivered THEN MaxUndelivered
               ELSE undelivered + Len(evs))
         ELSE undelivered
  /\ consumer' = consumer
  /\ stream' = NoteAll(stream, evs)

\* The holder of the event receiver stops polling it.
ConsumerLags ==
  /\ consumer = "draining"
  /\ consumer' = "lagging"
  /\ events' = <<>>
  /\ returned' = None
  /\ UNCHANGED <<fileVars, undelivered, stream, actorPc, cur, chanVars, engineVars, callerPc, slot, histVars>>

\* event_receiver.recv() by a consumer that is behind.
ConsumerRecv ==
  /\ consumer = "lagging" /\ undelivered > 0
  /\ undelivered' = undelivered - 1
  /\ events' = <<>>
  /\ returned' = None
  /\ UNCHANGED <<fileVars, consumer, stream, actorPc, cur, chanVars, engineVars, callerPc, slot, histVars>>

\* The event receiver is dropped, and with it the events still waiting.
ConsumerGoesAway ==
  /\ consumer # "gone"
  /\ consumer' = "gone"
  /\ undelivered' = 0
  /\ events' = <<>>
  /\ returned' = None
  /\ UNCHANGED <<fileVars, stream, actorPc, cur, chanVars, engineVars, callerPc, slot, histVars>>

\* --------------------------------------------------------- command handlers
\* Each handler is the function the code computes: from the actor's sink and the
\* locked state to the new sink, the new state, the events sent and the result.
Outcome(sink, st, evs, res) == [sink |-> sink, state |-> st, events |-> evs, result |-> res]

\* Sink::try_new(..), then set_volume(volume); append(decoder); play().
NewSink(volume) == [paused |-> FALSE, stopped |-> FALSE, volume |-> volume]

\* Mutant of create_robust_decoder: some strategy accepts whatever it is given.
create_robust_decoder_accepting_all(contents) == Ok

\* create_robust_decoder: Ok when one of the decode strategies accepts the file.
create_robust_decoder(contents) == IF contents = "ok" THEN Ok ELSE ErrDecode

\* Mutant of StopHeldSink: the held sink is left as it is.
LeaveHeldSink(sink) == sink

\* handle_play_track, first statement: sink.stop() on the sink held so far, which
\* stays in current_sink.
StopHeldSink(sink) ==
  IF IsSome(sink) THEN Some([Unwrap(sink) EXCEPT !.stopped = TRUE]) ELSE sink

\* Mutant of handle_play_track: a failure after the sink was stopped marks the
\* state as not playing.
handle_play_track_halting_on_failure(track, sink, st, sinkOk) ==
  IF ~sinkOk THEN Outcome(sink, [st EXCEPT !.is_playing = FALSE], <<>>, ErrSink)
  ELSE IF track.file = "missing"
    THEN Outcome(sink, [st EXCEPT !.is_playing = FALSE], <<>>, ErrNotFound)
  ELSE IF track.file = "vanishing"
    THEN Outcome(sink, [st EXCEPT !.is_playing = FALSE], <<>>, ErrFileSystem)
  ELSE IF track.file = "empty"
    THEN Outcome(sink, [st EXCEPT !.is_playing = FALSE], <<>>, ErrEmpty)
  ELSE IF track.file # "ok"
    THEN Outcome(sink, [st EXCEPT !.is_playing = FALSE], <<>>, ErrDecode)
  ELSE Outcome(Some(NewSink(st.volume)),
               [st EXCEPT !.current_track = Some(track),
                          !.is_playing = TRUE,
                          !.current_time = 0,
                          !.duration = track.duration,
                          !.playback_start_time = Some(0)],
               <<EvTrack("TrackStarted", track)>>,
               Ok)

\* Mutant of handle_play_track: the success branch does not reset current_time.
handle_play_track_keeping_position(track, sink, st, sinkOk) ==
  IF ~sinkOk THEN Outcome(sink, st, <<>>, ErrSink)
  ELSE IF track.file # "ok" THEN Outcome(sink, st, <<>>, ErrDecode)
  ELSE Outcome(Some(NewSink(st.volume)),
               [st EXCEPT !.current_track = Some(track),
                          !.is_playing = TRUE,
                          !.duration = track.duration,
                          !.playback_start_time = Some(0)],
               <<EvTrack("TrackStarted", track)>>,
               Ok)

\* handle_play_track from Sink::try_new on; sinkOk is whether try_new succeeds.
handle_play_track(track, sink, st, sinkOk) ==
  IF ~sinkOk THEN Outcome(sink, st, <<>>, ErrSink)
  ELSE IF track.file = "missing" THEN Outcome(sink, st, <<>>, ErrNotFound)
  ELSE IF track.file = "vanishing" THEN Outcome(sink, st, <<>>, ErrFileSystem)
  ELSE IF track.file = "empty" THEN Outcome(sink, st, <<>>, ErrEmpty)
  ELSE IF create_robust_decoder(track.file) # Ok THEN Outcome(sink, st, <<>>, ErrDecode)
  ELSE Outcome(Some(NewSink(st.volume)),
               [st EXCEPT !.current_track = Some(track),
                          !.is_playing = TRUE,
                          !.current_time = 0,
                          !.duration = track.duration,
                          !.playback_start_time = Some(0)],
               <<EvTrack("TrackStarted", track)>>,
               Ok)

\* Mutant of handle_pause: the start instant survives the pause.
handle_pause_keeping_start_time(sink, st) ==
  IF IsSome(sink) /\ st.is_playing
    THEN Outcome(Some([Unwrap(sink) EXCEPT !.paused = TRUE]),
                 [st EXCEPT !.is_playing = FALSE],
                 <<Ev("TrackPaused")>>,
                 Ok)
    ELSE Outcome(sink, st, <<>>, Ok)

handle_pause(sink, st) ==
  IF IsSome(sink) /\ st.is_playing
    THEN Outcome(Some([Unwrap(sink) EXCEPT !.paused = TRUE]),
                 [st EXCEPT !.is_playing = FALSE, !.playback_start_time = None],
                 <<Ev("TrackPaused")>>,
                 Ok)
    ELSE Outcome(sink, st, <<>>, Ok)

\* Mutant of handle_resume: announces the resume also when already playing.
handle_resume_always_announcing(sink, st) ==
  IF IsSome(sink) /\ ~st.is_playing
    THEN Outcome(Some([Unwrap(sink) EXCEPT !.paused = FALSE]),
                 [st EXCEPT !.is_playing = TRUE, !.playback_start_time = Some(0)],
                 <<Ev("TrackResumed")>>,
                 Ok)
    ELSE Outcome(sink, st, <<Ev("TrackResumed")>>, Ok)

\* Mutant of handle_resume: a resume asked for while playing pauses and restarts
\* the sink, announcing both.
handle_resume_restarting(sink, st) ==
  IF IsSome(sink) /\ ~st.is_playing
    THEN Outcome(Some([Unwrap(sink) EXCEPT !.paused = FALSE]),
                 [st EXCEPT !.is_playing = TRUE, !.playback_start_time = Some(0)],
                 <<Ev("TrackResumed")>>,
                 Ok)
    ELSE Outcome(sink, st, <<Ev("TrackPaused"), Ev("TrackResumed")>>, Ok)

\* Mutant of handle_resume: resumes without looking for a sink.
handle_resume_no_sink_check(sink, st) ==
  IF ~st.is_playing
    THEN Outcome(IF IsSome(sink) THEN Some([Unwrap(sink) EXCEPT !.paused = FALSE]) ELSE sink,
                 [st EXCEPT !.is_playing = TRUE, !.playback_start_time = Some(0)],
                 <<Ev("TrackResumed")>>,
                 Ok)
    ELSE Outcome(sink, st, <<>>, Ok)

handle_resume(sink, st) ==
  IF IsSome(sink) /\ ~st.is_playing
    THEN Outcome(Some([Unwrap(sink) EXCEPT !.paused = FALSE]),
                 [st EXCEPT !.is_playing = TRUE, !.playback_start_time = Some(0)],
                 <<Ev("TrackResumed")>>,
                 Ok)
    ELSE Outcome(sink, st, <<>>, Ok)

\* Mutant of handle_stop: TrackStopped is sent whether or not a sink was held.
handle_stop_always_announcing(sink, st) ==
  Outcome(None,
          IF IsSome(sink)
            THEN [st EXCEPT !.is_playing = FALSE,
                            !.current_track = None,
                            !.current_time = 0,
                            !.duration = 0,
                            !.playback_start_time = None]
            ELSE st,
          <<Ev("TrackStopped")>>,
          Ok)

\* Mutant of handle_stop: the sink is dropped and the state left as it is.
handle_stop_dropping_only(sink, st) ==
  Outcome(None, st, IF IsSome(sink) THEN <<Ev("TrackStopped")>> ELSE <<>>, Ok)

\* Mutant of handle_stop: with no sink to stop the command is refused.
handle_stop_requiring_sink(sink, st) ==
  IF IsSome(sink)
    THEN Outcome(None,
                 [st EXCEPT !.is_playing = FALSE,
                            !.current_track = None,
                            !.current_time = 0,
                            !.duration = 0,
                            !.playback_start_time = None],
                 <<Ev("TrackStopped")>>,
                 Ok)
    ELSE Outcome(None, st, <<>>, ErrSink)

handle_stop(sink, st) ==
  IF IsSome(sink)
    THEN Outcome(None,
                 [st EXCEPT !.is_playing = FALSE,
                            !.current_track = None,
                            !.current_time = 0,
                            !.duration = 0,
                            !.playback_start_time = None],
                 <<Ev("TrackStopped")>>,
                 Ok)
    ELSE Outcome(None, st, <<>>, Ok)

handle_set_volume(volume, sink, st) ==
  LET clamped_volume == clamp(volume, F(0), F(10))
  IN Outcome(IF IsSome(sink) THEN Some([Unwrap(sink) EXCEPT !.volume = clamped_volume]) ELSE sink,
             [st EXCEPT !.volume = clamped_volume],
             <<EvVol(clamped_volume)>>,
             Ok)

\* Mutant of handle_seek: a seek to the start of the track is accepted.
handle_seek_accepting_start(position) == IF position = 0 THEN Ok ELSE ErrSeek

handle_seek(position) == ErrSeek

\* Mutant of update_position: the finish branch settles current_time on duration
\* and sends TrackFinished but leaves is_playing and the start instant alone.
update_position_leaving_playing(sink, st, last) ==
  IF IsSome(sink) /\ st.is_playing /\ ~Unwrap(sink).paused /\ IsSome(st.playback_start_time)
    THEN LET elapsed == Unwrap(st.playback_start_time)
             new_position == st.current_time + elapsed
             moved == IF new_position >= last THEN new_position - last ELSE last - new_position
         IN IF new_position <= st.duration
              THEN [ state |-> [st EXCEPT !.current_time = new_position,
                                          !.playback_start_time = Some(0)],
                     events |-> IF moved >= PositionThreshold THEN <<EvPos(new_position)>> ELSE <<>>,
                     last_position |-> IF moved >= PositionThreshold THEN new_position ELSE last ]
              ELSE [ state |-> [st EXCEPT !.current_time = st.duration],
                     events |-> <<Ev("TrackFinished")>>,
                     last_position |-> last ]
    ELSE [state |-> st, events |-> <<>>, last_position |-> last]

\* update_position: [state, events, last_position] after one tick.
update_position(sink, st, last) ==
  IF IsSome(sink) /\ st.is_playing /\ ~Unwrap(sink).paused /\ IsSome(st.playback_start_time)
    THEN LET elapsed == Unwrap(st.playback_start_time)
             new_position == st.current_time + elapsed
             moved == IF new_position >= last THEN new_position - last ELSE last - new_position
         IN IF new_position <= st.duration
              THEN [ state |-> [st EXCEPT !.current_time = new_position,
                                          !.playback_start_time = Some(0)],
                     events |-> IF moved >= PositionThreshold THEN <<EvPos(new_position)>> ELSE <<>>,
                     last_position |-> IF moved >= PositionThreshold THEN new_position ELSE last ]
              ELSE [ state |-> [st EXCEPT !.current_time = st.duration,
                                          !.is_playing = FALSE,
                                          !.playback_start_time = None],
                     events |-> <<Ev("TrackFinished")>>,
                     last_position |-> last ]
    ELSE [state |-> st, events |-> <<>>, last_position |-> last]

\* --------------------------------------------------------------- the actor
ActorDead == actorPc \in {"no_device", "panicked"}

\* Mutant of DropQueued: the receiver closes but the queued commands, and with
\* them their reply senders, are kept alive.
DropQueuedKeepingSenders ==
  /\ slot' = slot
  /\ queue' = <<>>
  /\ chanClosed' = TRUE

\* Every queued command is dropped with the receiver: its reply sender is dropped
\* unsent, which closes the caller's reply channel.
DropQueued ==
  /\ slot' = [c \in Callers |->
                IF \E i \in DOMAIN queue : queue[i].caller = c THEN "closed" ELSE slot[c]]
  /\ queue' = <<>>
  /\ chanClosed' = TRUE

\* thread::spawn closure: Runtime::new().unwrap() panics; the closure's captures
\* (the command receiver among them) are dropped by the unwinding.
ActorRuntimePanic ==
  /\ actorPc = "init"
  /\ actorPc' = "panicked"
  /\ DropQueued
  /\ events' = <<>>
  /\ returned' = None
  /\ UNCHANGED <<fileVars, eventVars, cur, handlesDropped, engineVars, callerPc, histVars>>

\* Mutant of ActorDeviceFail: the Error event is sent but the thread does not
\* return, so the receiver stays open.
ActorDeviceFailNoReturn ==
  /\ actorPc = "init"
  /\ actorPc' = "no_device"
  /\ events' = <<Ev("Error")>>
  /\ errorEvents' = errorEvents + 1
  /\ returned' = None
  /\ Deliver(events')
  /\ UNCHANGED <<fileVars, cur, chanVars, engineVars, callerPc, slot, sent, handledSeq, replyCount,
                 failed>>

\* audio_thread: OutputStream::try_default() fails: one Error event, return.
ActorDeviceFail ==
  /\ actorPc = "init"
  /\ actorPc' = "no_device"
  /\ DropQueued
  /\ events' = <<Ev("Error")>>
  /\ errorEvents' = errorEvents + 1
  /\ returned' = None
  /\ Deliver(events')
  /\ UNCHANGED <<fileVars, cur, handlesDropped, engineVars, callerPc, sent, handledSeq, replyCount,
                 failed>>

\* audio_thread: the output stream is there; enter the loop.
ActorStart ==
  /\ actorPc = "init"
  /\ actorPc' = "select"
  /\ events' = <<>>
  /\ returned' = None
  /\ UNCHANGED <<fileVars, eventVars, cur, chanVars, engineVars, callerPc, slot, histVars>>

\* Mutant of Selecting: the select! branches also run while a handler is suspended.
SelectingOrMidHandler == actorPc \in {"select", "play_io"}

\* The actor is at tokio::select!, between two branch bodies.
Selecting == actorPc = "select"

\* Mutant of Recv: the newest queued command is taken first.
RecvNewest(q) == q[Len(q)]

\* command_receiver.recv(): the oldest queued command.
Recv(q) == Head(q)

NextIs(kind) == Selecting /\ queue # <<>> /\ Recv(queue).kind = kind

\* Mutant of Dequeue: taking one command discards the ones queued behind it.
DequeueDiscardingRest ==
  /\ queue' = <<>>
  /\ handledSeq' = Recv(queue).seq

Dequeue ==
  /\ queue' = Tail(queue)
  /\ handledSeq' = Recv(queue).seq

\* Mutant of SendReply: only failures are sent; on success the sender is dropped.
SendReplyOnError(c, r) ==
  /\ slot' = [slot EXCEPT ![c] = IF r = Ok THEN "closed" ELSE r]
  /\ replyCount' = [replyCount EXCEPT ![c] = IF r = Ok THEN @ ELSE @ + 1]
  /\ failed' = (failed \/ r # Ok)

\* let _ = response.send(result);
SendReply(c, r) ==
  /\ slot' = [slot EXCEPT ![c] = r]
  /\ replyCount' = [replyCount EXCEPT ![c] = @ + 1]
  /\ failed' = (failed \/ r # Ok)

\* Mutant of Apply: a handler that took a no-op branch is not replied to (the
\* branch body leaves early and the reply sender is dropped).
ApplySkippingNoop(out) ==
  /\ current_sink' = out.sink
  /\ state' = out.state
  /\ events' = out.events
  /\ IF out.events = <<>>
       THEN /\ slot' = [slot EXCEPT ![Recv(queue).caller] = "closed"]
            /\ UNCHANGED <<replyCount, failed>>
       ELSE SendReply(Recv(queue).caller, out.result)
  /\ Dequeue
  /\ returned' = None
  /\ Deliver(events')
  /\ UNCHANGED <<fileVars, actorPc, cur, chanClosed, handlesDropped, last_position, callerPc, sent,
                 errorEvents>>

\* A select! branch body that runs one synchronous handler and replies.
Apply(out) ==
  /\ current_sink' = out.sink
  /\ state' = out.state
  /\ events' = out.events
  /\ SendReply(Recv(queue).caller, out.result)
  /\ Dequeue
  /\ returned' = None
  /\ Deliver(events')
  /\ UNCHANGED <<fileVars, actorPc, cur, chanClosed, handlesDropped, last_position, callerPc, sent,
                 errorEvents>>

DoPause == NextIs("Pause") /\ Apply(handle_pause(current_sink, state))

DoResume == NextIs("Resume") /\ Apply(handle_resume(current_sink, state))

DoStop == NextIs("Stop") /\ Apply(handle_stop(current_sink, state))

DoSetVolume ==
  NextIs("SetVolume") /\ Apply(handle_set_volume(Recv(queue).arg, current_sink, state))

DoSeek ==
  NextIs("Seek")
  /\ Apply(Outcome(current_sink, state, <<>>, handle_seek(Recv(queue).arg)))

\* PlayTrack is dequeued and handle_play_track stops the held sink; validation,
\* file I/O and decoding follow in PlayFinish, outside the state lock.
PlayBegin ==
  /\ NextIs("PlayTrack")
  /\ actorPc' = "play_io"
  /\ cur' = Some(Recv(queue))
  /\ current_sink' = StopHeldSink(current_sink)
  /\ Dequeue
  /\ events' = <<>>
  /\ returned' = None
  /\ UNCHANGED <<fileVars, eventVars, chanClosed, handlesDropped, state, last_position, callerPc, slot, sent,
                 replyCount, errorEvents, failed>>

\* Mutant of PlayFinish: a failing handle_play_track is propagated out of the
\* loop, which ends the actor after the reply.
PlayFinishLeavingLoopOnError ==
  /\ actorPc = "play_io"
  /\ \E sinkOk \in BOOLEAN :
       LET out == handle_play_track(Unwrap(cur).arg, current_sink, state, sinkOk)
       IN /\ current_sink' = out.sink
          /\ state' = out.state
          /\ events' = out.events
          /\ SendReply(Unwrap(cur).caller, out.result)
          /\ actorPc' = IF out.result = Ok THEN "select" ELSE "stopped"
  /\ cur' = None
  /\ returned' = None
  /\ Deliver(events')
  /\ UNCHANGED <<fileVars, chanVars, last_position, callerPc, sent, handledSeq, errorEvents>>

\* The rest of handle_play_track, and the reply.
PlayFinish ==
  /\ actorPc = "play_io"
  /\ \E sinkOk \in BOOLEAN :
       LET out == handle_play_track(Unwrap(cur).arg, current_sink, state, sinkOk)
       IN /\ current_sink' = out.sink
          /\ state' = out.state
          /\ events' = out.events
          /\ SendReply(Unwrap(cur).caller, out.result)
  /\ actorPc' = "select"
  /\ cur' = None
  /\ returned' = None
  /\ Deliver(events')
  /\ UNCHANGED <<fileVars, chanVars, last_position, callerPc, sent, handledSeq, errorEvents>>

\* position_update_interval.tick() branch.
Tick ==
  /\ Selecting
  /\ LET out == update_position(current_sink, state, last_position)
     IN /\ state' = out.state
        /\ events' = out.events
        /\ last_position' = out.last_position
  /\ returned' = None
  /\ Deliver(events')
  /\ UNCHANGED <<fileVars, actorPc, cur, chanVars, current_sink, callerPc, slot, histVars>>

\* recv() yields None: every sender is gone and the queue is drained; break.
ActorExit ==
  /\ Selecting
  /\ handlesDropped
  /\ queue = <<>>
  /\ actorPc' = "stopped"
  /\ chanClosed' = TRUE
  /\ current_sink' = None
  /\ events' = <<>>
  /\ returned' = None
  /\ UNCHANGED <<fileVars, eventVars, cur, queue, handlesDropped, state, last_position, callerPc, slot, histVars>>

\* ------------------------------------------------------------ specification
ActorCommand == DoPause \/ DoResume \/ DoStop \/ DoSetVolume \/ DoSeek \/ PlayBegin \/ PlayFinish

ActorBoot == ActorStart \/ ActorDeviceFail \/ ActorRuntimePanic

CallerStep ==
  \E c \in Callers :
    \/ \E t \in Tracks : play_track(c, t)
    \/ pause_playback(c)
    \/ resume_playback(c)
    \/ stop_playback(c)
    \/ \E p \in SeekPositions : seek_to(c, p)
    \/ \E v \in VolumeInputs : set_volume(c, v)
    \/ AwaitResponse(c)
    \/ get_playback_state(c)

Next ==
  \/ CallerStep
  \/ DropHandles
  \/ TimePasses
  \/ ActorBoot
  \/ ActorCommand
  \/ Tick
  \/ ActorExit

Spec == Init /\ [][Next]_vars

\* The same engine with fewer input values, under the scheduling the code has:
\* select! polls its ready branches in random order, so a queued command is not
\* passed over forever, and a caller blocked on a resolved or closed reply
\* channel wakes up.
LiveTracks == {t \in Tracks : t.id \in {"a", "m"}}

LiveCallerStep ==
  \E c \in Callers :
    \/ \E t \in LiveTracks : play_track(c, t)
    \/ pause_playback(c)
    \/ resume_playback(c)
    \/ stop_playback(c)
    \/ seek_to(c, 30)
    \/ set_volume(c, F(5))
    \/ AwaitResponse(c)
    \/ get_playback_state(c)

LiveNext ==
  \/ LiveCallerStep
  \/ DropHandles
  \/ TimePasses
  \/ ActorBoot
  \/ ActorCommand
  \/ Tick
  \/ ActorExit

Fairness ==
  /\ WF_vars(ActorCommand)
  /\ \A c \in Callers : WF_vars(AwaitResponse(c))

LiveSpec == Init /\ [][LiveNext]_vars /\ Fairness

\* The concurrent-access integration test: the actor is running, no track is ever
\* played, and concurrent tasks call set_volume (with the test's volumes),
\* get_playback_state, pause_playback and resume_playback in any interleaving.
ConcInit ==
  /\ actorPc = "select"
  /\ cur = None
  /\ queue = <<>>
  /\ chanClosed = FALSE
  /\ handlesDropped = FALSE
  /\ current_sink = None
  /\ state = InitState
  /\ last_position = 0
  /\ callerPc = [c \in Callers |-> "idle"]
  /\ slot = [c \in Callers |-> "empty"]
  /\ events = <<>>
  /\ returned = None
  /\ sent = 0
  /\ handledSeq = 0
  /\ replyCount = [c \in Callers |-> 0]
  /\ errorEvents = 0
  /\ failed = FALSE
  /\ consumer = "draining"
  /\ undelivered = 0
  /\ stream = NoStream
  /\ file = SoundFile
  /\ probe = None

ConcCallerStep ==
  \E c \in Callers :
    \/ \E v \in TestVolumes : set_volume(c, v)
    \/ get_playback_state(c)
    \/ pause_playback(c)
    \/ resume_playback(c)
    \/ AwaitResponse(c)

ConcActorCommand == DoPause \/ DoResume \/ DoSetVolume

ConcNext == ConcCallerStep \/ ConcActorCommand \/ Tick

ConcSpec ==
  /\ ConcInit
  /\ [][ConcNext]_vars
  /\ WF_vars(ConcActorCommand)
  /\ \A c \in Callers : WF_vars(AwaitResponse(c))

\* A running engine whose event consumer can fall behind, catch up one event at
\* a time, or drop the receiver, while callers play a track, pause and set the
\* volume and the position ticks run.
EventCallerStep ==
  \E c \in Callers :
    \/ \E t \in {tr \in Tracks : tr.id = "a"} : play_track(c, t)
    \/ pause_playback(c)
    \/ set_volume(c, F(5))
    \/ AwaitResponse(c)

EventActorCommand == DoPause \/ DoSetVolume \/ PlayBegin \/ PlayFinish

EventNext ==
  \/ EventCallerStep
  \/ EventActorCommand
  \/ TimePasses
  \/ Tick
  \/ ConsumerLags
  \/ ConsumerRecv
  \/ ConsumerGoesAway

EventSpec ==
  /\ ConcInit
  /\ [][EventNext]_vars
  /\ WF_vars(EventActorCommand)
  /\ \A c \in Callers : WF_vars(AwaitResponse(c))

\* The player of Spec with the event stream recorded.
StreamInit ==
  /\ actorPc = "init"
  /\ cur = None
  /\ queue = <<>>
  /\ chanClosed = FALSE
  /\ handlesDropped = FALSE
  /\ current_sink = None
  /\ state = InitState
  /\ last_position = 0
  /\ callerPc = [c \in Callers |-> "idle"]
  /\ slot = [c \in Callers |-> "empty"]
  /\ events = <<>>
  /\ returned = None
  /\ sent = 0
  /\ handledSeq = 0
  /\ replyCount = [c \in Callers |-> 0]
  /\ errorEvents = 0
  /\ failed = FALSE
  /\ consumer = "draining"
  /\ undelivered = 0
  /\ stream = RecordedStream
  /\ file = SoundFile
  /\ probe = None

StreamSpec == StreamInit /\ [][Next]_vars

\* A running engine with the played time recorded, while callers play a track,
\* pause and resume it and the position ticks run.
ClockInit ==
  /\ actorPc = "select"
  /\ cur = None
  /\ queue = <<>>
  /\ chanClosed = FALSE
  /\ handlesDropped = FALSE
  /\ current_sink = None
  /\ state = InitState
  /\ last_position = 0
  /\ callerPc = [c \in Callers |-> "idle"]
  /\ slot = [c \in Callers |-> "empty"]
  /\ events = <<>>
  /\ returned = None
  /\ sent = 0
  /\ handledSeq = 0
  /\ replyCount = [c \in Callers |-> 0]
  /\ errorEvents = 0
  /\ failed = FALSE
  /\ consumer = "draining"
  /\ undelivered = 0
  /\ stream = TimedStream
  /\ file = SoundFile
  /\ probe = None

ClockCallerStep ==
  \E c \in Callers :
    \/ \E t \in {tr \in Tracks : tr.id = "a"} : play_track(c, t)
    \/ pause_playback(c)
    \/ resume_playback(c)
    \/ AwaitResponse(c)

ClockActorCommand == DoPause \/ DoResume \/ PlayBegin \/ PlayFinish

ClockNext ==
  \/ ClockCallerStep
  \/ ClockActorCommand
  \/ TimePasses
  \/ Tick

ClockSpec == ClockInit /\ [][ClockNext]_vars

\* validate_audio_file and create_robust_decoder applied to every kind of file.
FileInit ==
  /\ actorPc = "init"
  /\ cur = None
  /\ queue = <<>>
  /\ chanClosed = FALSE
  /\ handlesDropped = FALSE
  /\ current_sink = None
  /\ state = InitState
  /\ last_position = 0
  /\ callerPc = [c \in Callers |-> "idle"]
  /\ slot = [c \in Callers |-> "empty"]
  /\ events = <<>>
  /\ returned = None
  /\ sent = 0
  /\ handledSeq = 0
  /\ replyCount = [c \in Callers |-> 0]
  /\ errorEvents = 0
  /\ failed = FALSE
  /\ consumer = "draining"
  /\ undelivered = 0
  /\ stream = NoStream
  /\ file \in Files
  /\ probe = None

FileNext == ValidateFile \/ ResolveDecoder

FileSpec == FileInit /\ [][FileNext]_vars

\* The player as constructed, with nothing sent to it.
Untouched ==
  /\ actorPc = "init"
  /\ cur = None
  /\ queue = <<>>
  /\ chanClosed = FALSE
  /\ handlesDropped = FALSE
  /\ current_sink = None
  /\ state = InitState
  /\ last_position = 0
  /\ callerPc = [c \in Callers |-> "idle"]
  /\ slot = [c \in Callers |-> "empty"]
  /\ events = <<>>
  /\ returned = None
  /\ sent = 0
  /\ handledSeq = 0
  /\ replyCount = [c \in Callers |-> 0]
  /\ errorEvents = 0
  /\ failed = FALSE
  /\ consumer = "draining"
  /\ undelivered = 0
  /\ stream = NoStream

\* try_skip_header_decoder applied to every short file over ByteValues.
ScanInit ==
  /\ Untouched
  /\ file \in ByteFiles
  /\ probe = None

ScanSpec == ScanInit /\ [][SkipHeaderScan]_vars

\* The tag check of analyze_mp3_file applied to every head over SizeByteValues.
TagInit ==
  /\ Untouched
  /\ file \in TaggedFiles
  /\ probe = None

TagSpec == TagInit /\ [][AnalyzeTag]_vars

\* ------------------------------------------------------------------ claims
InQueue(c) == \E i \in DOMAIN queue : queue[i].caller = c
InFlight(c) == IsSome(cur) /\ Unwrap(cur).caller = c
\* Caller c's outstanding command has been dequeued and its handler has finished.
Handled(c) == callerPc[c] = "waiting" /\ ~InQueue(c) /\ ~InFlight(c) /\ ~ActorDead
Results == {Ok} \cup HandlerErrors

\* C1: in every reachable state, is_playing implies that current_track is present.
Thm_C1 == state.is_playing => IsSome(state.current_track)

\* A PlayTrack issued while a track was playing has failed: the state still says
\* playing, with the earlier track, over the sink that PlayTrack stopped.
Wit_C1 ==
  /\ Selecting /\ failed
  /\ state.is_playing /\ IsSome(state.current_track)
  /\ IsSome(current_sink) /\ Unwrap(current_sink).stopped

\* C2: the reply slot of every command the actor has dequeued and handled has been
\* resolved exactly once, whether the handler succeeded, failed or took a no-op
\* branch; a command still queued or in its handler has not been replied to.
Thm_C2 ==
  \A c \in Callers :
    /\ replyCount[c] <= 1
    /\ Handled(c) => replyCount[c] = 1 /\ slot[c] \in Results
    /\ (InQueue(c) \/ InFlight(c)) => replyCount[c] = 0 /\ slot[c] = "pending"

\* One caller holds the reply of a no-op success, the other the reply of a failure.
Wit_C2 ==
  \E c, d \in Callers :
    /\ Handled(c) /\ slot[c] = Ok /\ ~IsSome(current_sink) /\ state = InitState
    /\ Handled(d) /\ slot[d] \in HandlerErrors

\* C3: commands are dequeued in arrival order, none skipped or merged: the queue
\* always holds exactly the commands that arrived after the last one dequeued, in
\* arrival order, whatever ticks ran in between.
Thm_C3 ==
  /\ \A i \in DOMAIN queue : queue[i].seq = handledSeq + i
  /\ ~ActorDead => sent = handledSeq + Len(queue)

\* Two commands wait behind one that has been handled.
Wit_C3 == Len(queue) = 2 /\ handledSeq = 1 /\ Selecting

\* What a command handler or a tick reads and writes (the elapsed part of
\* playback_start_time is the wall clock and moves by itself).
EngineView ==
  <<current_sink, PlaybackStateOf(state), IsSome(state.playback_start_time), last_position>>

\* C4: while handle_play_track is between its first and its last step, no tick and
\* no other command runs: the sink, the shared state and last_position stay as
\* they are and nothing is dequeued or emitted until that handler finishes.
Thm_C4 ==
  [][actorPc = "play_io" =>
       \/ /\ actorPc' = "play_io"
          /\ EngineView' = EngineView
          /\ handledSeq' = handledSeq
          /\ cur' = cur
          /\ events' = <<>>
       \/ /\ actorPc' = "select"
          /\ cur' = None
          /\ handledSeq' = handledSeq
          /\ slot'[Unwrap(cur).caller] \in Results]_vars

\* PlayTrack is mid-handler while a track plays, time has elapsed since the last
\* tick and another caller's command is queued.
Wit_C4 ==
  /\ actorPc = "play_io"
  /\ state.is_playing
  /\ IsSome(state.playback_start_time) /\ Unwrap(state.playback_start_time) > 0
  /\ queue # <<>>

CommandKinds == {"PlayTrack", "Pause", "Resume", "Stop", "SetVolume", "Seek"}
ActorRunning == actorPc \in {"select", "play_io"}

\* C6: while the actor runs, a queued command is never dropped (its reply slot
\* stays pending until it is resolved with the handler's result) and, with the
\* actor loop scheduled fairly, it is eventually dequeued and replied to, whatever
\* is queued ahead of it and however many ticks fire.
Thm_C6 ==
  /\ [][\A c \in Callers :
          (ActorRunning /\ slot[c] = "pending") => slot'[c] \in {"pending"} \cup Results]_vars
  /\ \A c \in Callers :
       (ActorRunning /\ slot[c] = "pending") ~> (slot[c] \in Results /\ replyCount[c] = 1)

\* A command waits behind another one while a track plays and ticks are due.
Wit_C6 ==
  /\ Selecting /\ Len(queue) = 2
  /\ state.is_playing
  /\ IsSome(state.playback_start_time) /\ Unwrap(state.playback_start_time) > 0

\* C7: a failing command (Seek, or PlayTrack on a missing, empty or undecodable
\* file) is answered with its error in its caller's slot and leaves the actor in
\* its loop; every command queued after a failure is still handled and replied to.
Thm_C7 ==
  /\ [][(NextIs("Seek") /\ handledSeq' # handledSeq)
          => (slot'[Recv(queue).caller] = ErrSeek /\ actorPc' = "select")]_vars
  /\ [][(actorPc = "play_io" /\ Unwrap(cur).arg.file # "ok" /\ actorPc' # "play_io")
          => (slot'[Unwrap(cur).caller] \in HandlerErrors /\ actorPc' = "select")]_vars
  /\ [](failed => ActorRunning \/ (actorPc = "stopped" /\ handlesDropped))
  /\ \A c \in Callers : (failed /\ InQueue(c)) ~> (slot[c] \in Results)

\* After a failure, a later SetVolume has just been handled and answered.
Wit_C7 ==
  /\ failed
  /\ events # <<>> /\ events[1].type = "VolumeChanged"
  /\ \E c \in Callers : slot[c] = Ok /\ replyCount[c] = 1

\* C8: when the output device cannot be acquired the actor sends exactly one
\* Error event and terminates, the command channel is closed with nothing left
\* queued, and every command call made afterwards returns the not-running error.
Thm_C8 ==
  /\ errorEvents = (IF actorPc = "no_device" THEN 1 ELSE 0)
  /\ \A i \in DOMAIN events : events[i].type = "Error" => (actorPc = "no_device" /\ Len(events) = 1)
  /\ actorPc = "no_device" =>
       /\ chanClosed /\ queue = <<>>
       /\ \A c \in Callers : slot[c] # "pending"
       /\ (IsSome(returned) /\ Unwrap(returned).op \in CommandKinds)
            => Unwrap(returned).value = ErrNotRunning

\* A command call made after the device failure has returned the not-running error.
Wit_C8 ==
  /\ actorPc = "no_device"
  /\ IsSome(returned) /\ Unwrap(returned).op \in CommandKinds
  /\ Unwrap(returned).value = ErrNotRunning

\* C9: when the actor has terminated with commands queued, their reply channels
\* are closed, the waiting callers return and what they return is the no-response
\* error; on a closed command channel a call enqueues nothing and returns the
\* not-running error.
Thm_C9 ==
  /\ [](ActorDead => \A c \in Callers : callerPc[c] = "waiting" => slot[c] = "closed")
  /\ []((ActorDead /\ IsSome(returned) /\ Unwrap(returned).op = "round_trip")
          => Unwrap(returned).value = ErrNoResponse)
  /\ [](chanClosed => queue = <<>>)
  /\ []((IsSome(returned) /\ Unwrap(returned).op \in CommandKinds)
          => (chanClosed /\ Unwrap(returned).value = ErrNotRunning))
  /\ \A c \in Callers : (ActorDead /\ callerPc[c] = "waiting") ~> (callerPc[c] = "idle")

\* A caller whose command was queued when the actor died has returned the
\* no-response error.
Wit_C9 ==
  /\ ActorDead
  /\ IsSome(returned) /\ Unwrap(returned).op = "round_trip"
  /\ Unwrap(returned).value = ErrNoResponse

\* C10: in every reachable state the stored volume lies in [0.0, 1.0], whatever
\* values have been passed to SetVolume.
Cex_C10 == InRange(state.volume, F(0), F(10))

\* The SetVolume command at the head of the queue is handled in this step.
HandlesSetVolume == NextIs("SetVolume") /\ handledSeq' # handledSeq

\* C11: for every value v, once SetVolume(v) has been handled the stored volume
\* equals clamp(v, 0.0, 1.0), with or without an active track, and the command is
\* answered with success.
Cex_C11 ==
  [][HandlesSetVolume =>
       /\ FEq(state'.volume, clamp(Recv(queue).arg, F(0), F(10)))
       /\ slot'[Recv(queue).caller] = Ok]_vars

\* C12: in every reachable state current_time does not exceed duration, whatever
\* track was handed to PlayTrack and whatever commands, ticks and elapsed times
\* followed.
Cex_C12 == state.current_time <= state.duration

\* The Stop command at the head of the queue is handled in this step.
HandlesStop == NextIs("Stop") /\ handledSeq' # handledSeq

\* handle_play_track finishes in this step and its caller is answered Ok.
PlayTrackSucceeds ==
  actorPc = "play_io" /\ actorPc' = "select" /\ slot'[Unwrap(cur).caller] = Ok

\* C13: current_time never decreases from one state to the next, except in a
\* Stop or a successful PlayTrack step, and such a step sets it to exactly 0.
Cex_C13 ==
  [][state'.current_time < state.current_time =>
       /\ HandlesStop \/ PlayTrackSucceeds
       /\ state'.current_time = 0]_vars

\* Sinks that can put out sound: a sink that is held and has not been stopped
\* (after stop() a sink stays silent until something is appended to it, and
\* nothing ever is).
LiveSinks(sink) == IF IsSome(sink) /\ ~Unwrap(sink).stopped THEN 1 ELSE 0

\* Live sinks inside handle_play_track from Sink::try_new to its return: the sink
\* still held in current_sink and, when try_new succeeded, the new local one.
LiveSinksInPlayTrack(sink, sinkOk) == LiveSinks(sink) + (IF sinkOk THEN 1 ELSE 0)

\* C14: at most one live output sink exists at any instant: between commands the
\* actor holds at most one, and while PlayTrack creates the new sink, also over a
\* playing or paused track, the sink held so far is no longer live.
Thm_C14 ==
  /\ LiveSinks(current_sink) <= 1
  /\ actorPc = "play_io" =>
       \A sinkOk \in BOOLEAN : LiveSinksInPlayTrack(current_sink, sinkOk) <= 1

\* PlayTrack is in its handler over the sink of a track that is still playing.
Wit_C14 ==
  /\ actorPc = "play_io"
  /\ IsSome(current_sink) /\ ~Unwrap(current_sink).paused
  /\ state.is_playing

\* The Seek command at the head of the queue is handled in this step.
HandlesSeek == NextIs("Seek") /\ handledSeq' # handledSeq

\* The engine states a command can meet.
Idle == ~IsSome(state.current_track)
Playing == state.is_playing
Paused == IsSome(current_sink) /\ Unwrap(current_sink).paused /\ ~state.is_playing
Finished ==
  /\ IsSome(state.current_track) /\ ~state.is_playing
  /\ IsSome(current_sink) /\ ~Unwrap(current_sink).paused

\* C15: Seek(x) is answered with the not-supported error for every position x
\* and in every engine state (idle, playing, paused, finished), and changes
\* nothing; no Seek is answered with success.
Thm_C15 ==
  [][HandlesSeek =>
       /\ slot'[Recv(queue).caller] = ErrSeek
       /\ EngineView' = EngineView
       /\ events' = <<>>]_vars

\* A Seek that met a finished track has been answered with the error.
Wit_C15 ==
  /\ Finished /\ Selecting
  /\ \E c \in Callers : Handled(c) /\ slot[c] = ErrSeek

\* C16: right after a successful PlayTrack(track), whatever the state before it
\* (idle, playing, paused or finished), current_track is track, is_playing is
\* true, current_time is 0, duration is track.duration, and the step has emitted
\* TrackStarted(track).
Thm_C16 ==
  [][PlayTrackSucceeds =>
       LET track == Unwrap(cur).arg
       IN /\ state'.current_track = Some(track)
          /\ state'.is_playing
          /\ state'.current_time = 0
          /\ state'.duration = track.duration
          /\ events' = <<EvTrack("TrackStarted", track)>>]_vars

\* A track has just been started after an earlier one had played for a while.
Wit_C16 ==
  /\ events # <<>> /\ events[1].type = "TrackStarted"
  /\ last_position > 0
  /\ state.is_playing /\ state.current_time = 0

\* handle_play_track finishes in this step.
PlayTrackReturns == actorPc = "play_io" /\ actorPc' = "select"

\* C17: PlayTrack on a file that does not exist, is empty or that no decode
\* strategy accepts is answered with a Playback error and does not start
\* playback: the state and the held sink stay as they are and no TrackStarted
\* (nor any other event) is emitted.
Thm_C17 ==
  [][(PlayTrackReturns /\ Unwrap(cur).arg.file \in {"missing", "empty", "corrupt"}) =>
       /\ slot'[Unwrap(cur).caller] \in PlaybackErrors
       /\ state' = state
       /\ current_sink' = current_sink
       /\ events' = <<>>]_vars

\* A PlayTrack on an undecodable file has been answered with the decode error
\* and nothing plays.
Wit_C17 ==
  /\ Selecting /\ Idle /\ ~IsSome(current_sink)
  /\ \E c \in Callers : Handled(c) /\ slot[c] = ErrDecode

\* The Pause or Resume command at the head of the queue is handled in this step.
HandlesPause == NextIs("Pause") /\ handledSeq' # handledSeq
HandlesResume == NextIs("Resume") /\ handledSeq' # handledSeq

\* C18: Pause, Resume and Stop handled when no track is active are answered with
\* success and leave current_track, is_playing, current_time, duration and
\* volume (and the rest of the engine) as they were, with no event.
Thm_C18 ==
  [][(Idle /\ (HandlesPause \/ HandlesResume \/ HandlesStop)) =>
       /\ slot'[Recv(queue).caller] = Ok
       /\ PlaybackStateOf(state') = PlaybackStateOf(state)
       /\ state' = state
       /\ current_sink' = current_sink
       /\ events' = <<>>]_vars

\* With no track active and a volume set earlier, both callers hold a success.
Wit_C18 ==
  /\ Selecting /\ Idle /\ state.volume = F(5)
  /\ \A c \in Callers : Handled(c) /\ slot[c] = Ok

\* A tick now would find the track playing with the elapsed time carrying the
\* position past duration.
PastDuration ==
  /\ IsSome(current_sink) /\ ~Unwrap(current_sink).paused
  /\ state.is_playing /\ IsSome(state.playback_start_time)
  /\ state.current_time + Unwrap(state.playback_start_time) > state.duration

\* C19: when the elapsed time has carried the position past duration, the next
\* tick sends exactly one TrackFinished and leaves is_playing false and
\* current_time equal to duration; the ticks after it, with the track no longer
\* playing, send nothing more.
Thm_C19 ==
  [][/\ (PastDuration /\ Tick) =>
          /\ events' = <<Ev("TrackFinished")>>
          /\ ~state'.is_playing
          /\ state'.current_time = state.duration
          /\ state'.duration = state.duration
     /\ (~state.is_playing /\ Tick) => (events' = <<>> /\ state' = state)]_vars

\* The tick that found the position past the end of a track of positive length
\* has just sent TrackFinished.
Wit_C19 ==
  /\ events = <<Ev("TrackFinished")>>
  /\ ~state.is_playing
  /\ state.duration > 0 /\ state.current_time = state.duration

\* A tick now would find the track playing and advance its position.
Advancing ==
  /\ IsSome(current_sink) /\ ~Unwrap(current_sink).paused
  /\ state.is_playing /\ IsSome(state.playback_start_time)
  /\ state.current_time + Unwrap(state.playback_start_time) <= state.duration

\* The position the debounce of the track being played is measured from: the
\* position of its last PositionChanged, or its start while it has sent none.
\* A track's positions only grow and last_position is set to the position sent,
\* so a last_position ahead of current_time was left by an earlier track.
DebounceBase == IF last_position <= state.current_time THEN last_position ELSE 0

\* C20: over any tick sequence PositionChanged fires exactly once per crossing
\* of the 0.5 s threshold and never for a smaller movement: a tick sends at most
\* one, sends none when the position has moved less than 0.5 s since the last
\* emitted position, and sends one when it has moved 0.5 s or more, the first
\* ticks of a track started after another track has played included.
Cex_C20 ==
  [][Tick =>
       LET emitted == events' # <<>> /\ events'[1].type = "PositionChanged"
           moved == state'.current_time - DebounceBase
       IN /\ Len(events') <= 1
          /\ emitted => (moved >= PositionThreshold /\ events'[1].position = state'.current_time)
          /\ (Advancing /\ moved >= PositionThreshold) => emitted]_vars

\* C21: when a facade command call returns, the shared snapshot already shows
\* the command's effect: the handler writes the state before it replies, the
\* call returns only on the reply, nothing but a command handler writes the
\* volume, and get_playback_state copies the state as it is; so a
\* get_playback_state right after set_volume(v) has returned, with no other
\* command handled in between, reports volume == clamp(v, 0, 1).
Cex_C21 ==
  [][/\ HandlesSetVolume =>
          /\ FEq(PlaybackStateOf(state').volume, clamp(Recv(queue).arg, F(0), F(10)))
          /\ slot'[Recv(queue).caller] = Ok
     /\ \A c \in Callers :
          (callerPc[c] = "waiting" /\ callerPc'[c] = "idle") => slot[c] # "pending"
     /\ handledSeq' = handledSeq => state'.volume = state.volume
     /\ (IsSome(returned') /\ Unwrap(returned').op = "get_playback_state") =>
          Unwrap(returned').value = PlaybackStateOf(state)]_vars

\* C22: whatever the event consumer does (lags, never drains, has gone away),
\* the actor is never blocked and no command fails because of it: every queued
\* command is eventually replied to, the replies are those of the handlers
\* (success, or the sink error of PlayTrack), and the tick stays enabled.
Thm_C22 ==
  /\ \A c \in Callers : (slot[c] = "pending") ~> (slot[c] \in Results /\ replyCount[c] = 1)
  /\ [](\A c \in Callers : slot[c] \in Results => slot[c] \in {Ok, ErrSink})
  /\ [](Selecting => ENABLED Tick)

\* A handler has just sent an event into a channel already full of undelivered
\* events and has replied with success.
Wit_C22 ==
  /\ consumer = "lagging" /\ undelivered = MaxUndelivered
  /\ events # <<>> /\ events[1].type = "VolumeChanged"
  /\ \E c \in Callers : Handled(c) /\ slot[c] = Ok /\ replyCount[c] = 1

Cex_C24 ==
  [][/\ HandlesStop => ~IsSome(state'.current_track)
     /\ PlayTrackSucceeds => state'.current_track = Some(Unwrap(cur).arg)
     /\ (Tick /\ events' = <<Ev("TrackFinished")>>) =>
          (~IsSome(state'.current_track) /\ is_finished(state'))]_vars

\* The strategies in the order the chain is to try them.
Strategies == <<"standard", "buffered", "validated", "skip_header">>

Accepts(name, f) ==
  IF name = "standard" THEN try_standard_decoder(f)
  ELSE IF name = "buffered" THEN try_buffered_decoder(f)
  ELSE IF name = "validated" THEN try_validated_decoder(f)
  ELSE try_skip_header_decoder(f)

\* C25: the chain tries standard, large buffer, pre-validated, skip-header in
\* that order; it returns the decoder of the first strategy that accepts the file
\* and attempts none after it; it returns the aggregated failure if and only if
\* all four strategies fail.
Thm_C25 ==
  (IsSome(probe) /\ Unwrap(probe).op = "create_robust_decoder") =>
    LET r == Unwrap(probe).result
    IN /\ r.tried = SubSeq(Strategies, 1, Len(r.tried))
       /\ \A i \in DOMAIN r.tried :
            Accepts(r.tried[i], file) <=> (i = Len(r.tried) /\ r.decoder # "none")
       /\ r.decoder # "none" => r.decoder = r.tried[Len(r.tried)]
       /\ r.decoder = "none" <=> \A i \in DOMAIN Strategies : ~Accepts(Strategies[i], file)
       /\ r.decoder = "none" => r.tried = Strategies

\* The skip-header strategy accepted the file after the three before it had been
\* tried and had failed.
Wit_C25 ==
  /\ IsSome(probe) /\ Unwrap(probe).op = "create_robust_decoder"
  /\ Unwrap(probe).result.decoder = "skip_header"
  /\ Unwrap(probe).result.tried = Strategies

\* The three pre-flight conditions on a path.
Exists(f) == f.on_disk # "missing"
NonEmpty(f) == f.on_disk = "data"
RecognizedExtension(f) == IsSome(f.ext) /\ to_lowercase(Unwrap(f.ext)) \in supported_extensions
Decodable(f) == \E i \in DOMAIN Strategies : Accepts(Strategies[i], f)

\* C26: validate_audio_file succeeds only for a file that exists, is non-empty
\* and has a recognized extension from {mp3, flac, wav, ogg, m4a}; a file failing
\* any of the three conditions, or that no strategy can decode, is rejected with
\* an error.
Cex_C26 ==
  (IsSome(probe) /\ Unwrap(probe).op = "validate_audio_file") =>
    LET r == Unwrap(probe).result
    IN /\ r = Ok => (Exists(file) /\ NonEmpty(file) /\ RecognizedExtension(file))
       /\ (~Exists(file) \/ ~NonEmpty(file) \/ ~RecognizedExtension(file) \/ ~Decodable(file))
            => r # Ok

\* The snapshot after a stop: no track, not playing, at 0 of 0, volume as given.
StoppedState(volume) ==
  [ current_track |-> None,
    is_playing |-> FALSE,
    current_time |-> 0,
    duration |-> 0,
    volume |-> volume ]

\* C27 as stated: every Stop command stops and drops the sink, leaves the state
\* equal to {track=None, is_playing=false, current_time=0, duration=0} with the
\* volume unchanged, and emits a TrackStopped event.
Cex_C27 ==
  [][HandlesStop =>
       /\ current_sink' = None
       /\ PlaybackStateOf(state') = StoppedState(state.volume)
       /\ events' = <<Ev("TrackStopped")>>]_vars

\* C27, amended: every Stop command leaves the actor without a sink and the
\* state equal to {track=None, is_playing=false, current_time=0, duration=0}
\* with the volume unchanged, and returns success; it emits exactly one
\* TrackStopped when a sink was held and no event when none was.
Thm_C27 ==
  [][HandlesStop =>
       /\ current_sink' = None
       /\ PlaybackStateOf(state') = StoppedState(state.volume)
       /\ ~IsSome(state'.playback_start_time)
       /\ slot'[Recv(queue).caller] = Ok
       /\ events' = IF IsSome(current_sink) THEN <<Ev("TrackStopped")>> ELSE <<>>]_vars

\* A Stop has just ended a track played at a volume set earlier.
Wit_C27 ==
  /\ events = <<Ev("TrackStopped")>>
  /\ current_sink = None
  /\ PlaybackStateOf(state) = StoppedState(F(5))
  /\ \E c \in Callers : Handled(c) /\ slot[c] = Ok

\* C28: Pause handled while is_playing is true pauses the sink, sets is_playing
\* to false, clears the start instant and emits exactly one TrackPaused; Pause
\* handled while is_playing is false changes no state and emits no event; both
\* return success.
Thm_C28 ==
  [][HandlesPause =>
       /\ slot'[Recv(queue).caller] = Ok
       /\ state.is_playing =>
            /\ IsSome(current_sink)
            /\ current_sink' = Some([Unwrap(current_sink) EXCEPT !.paused = TRUE])
            /\ state' = [state EXCEPT !.is_playing = FALSE, !.playback_start_time = None]
            /\ events' = <<Ev("TrackPaused")>>
       /\ ~state.is_playing =>
            /\ state' = state
            /\ current_sink' = current_sink
            /\ last_position' = last_position
            /\ events' = <<>>]_vars

\* A Pause has just paused a playing track part of the way through.
Wit_C28 ==
  /\ events = <<Ev("TrackPaused")>>
  /\ IsSome(current_sink) /\ Unwrap(current_sink).paused
  /\ ~state.is_playing /\ ~IsSome(state.playback_start_time)
  /\ IsSome(state.current_track) /\ state.current_time > 0
  /\ \E c \in Callers : Handled(c) /\ slot[c] = Ok

\* C29: Resume handled while is_playing is false and a sink exists resumes the
\* sink, sets is_playing to true, sets the start instant to now and emits exactly
\* one TrackResumed; in every other state (already playing, or no sink) Resume
\* changes no state and emits no event; both return success.
Thm_C29 ==
  [][HandlesResume =>
       /\ slot'[Recv(queue).caller] = Ok
       /\ (~state.is_playing /\ IsSome(current_sink)) =>
            /\ current_sink' = Some([Unwrap(current_sink) EXCEPT !.paused = FALSE])
            /\ state' = [state EXCEPT !.is_playing = TRUE, !.playback_start_time = Some(0)]
            /\ events' = <<Ev("TrackResumed")>>
       /\ (state.is_playing \/ ~IsSome(current_sink)) =>
            /\ state' = state
            /\ current_sink' = current_sink
            /\ last_position' = last_position
            /\ events' = <<>>]_vars

\* A Resume has just restarted a track that had been paused.
Wit_C29 ==
  /\ events = <<Ev("TrackResumed")>>
  /\ IsSome(current_sink) /\ ~Unwrap(current_sink).paused /\ ~Unwrap(current_sink).stopped
  /\ state.is_playing /\ state.playback_start_time = Some(0)
  /\ IsSome(state.current_track)
  /\ \E c \in Callers : Handled(c) /\ slot[c] = Ok

\* The actor takes a PlayTrack command off the queue and enters its handler.
PlayTrackBegins == NextIs("PlayTrack") /\ handledSeq' # handledSeq
PlayTrackFails == PlayTrackReturns /\ slot'[Unwrap(cur).caller] # Ok

\* C30: PlayTrack stops and drops any existing sink as its first step, before it
\* validates the path or resolves a decoder, whether or not the new track then
\* starts: no live sink is left once the handler is entered, and after a
\* PlayTrack that fails the actor no longer holds the previous sink.
Cex_C30 ==
  [][/\ PlayTrackBegins => LiveSinks(current_sink') = 0
     /\ PlayTrackFails => current_sink' = None]_vars

\* Offsets in the first ScanWindow bytes of f at which a frame-sync pattern lies
\* and from which the file decodes.
DecodableSyncs(f) ==
  { k \in 0..(ScanWindow - 2) :
      k + 2 <= Len(f.bytes) /\ IsSync(f.bytes, k) /\ k \in f.decodes }

\* C31: for a file whose first decodable frame-sync pattern within the scanned
\* first bytes lies at a non-zero offset k, the skip-header strategy skips
\* exactly k leading bytes and decodes from offset k on a freshly opened handle;
\* it fails only when no sync position in the scanned first bytes yields a
\* working decode.
Cex_C31 ==
  (IsSome(probe) /\ Unwrap(probe).op = "try_skip_header_decoder") =>
    LET r == Unwrap(probe).result
    IN /\ (DecodableSyncs(file) # {} /\ Least(DecodableSyncs(file)) > 0) =>
            (r.ok /\ r.skipped = Least(DecodableSyncs(file)) /\ r.fresh_handle)
       /\ ~r.ok => DecodableSyncs(file) = {}

\* The synchsafe integer of four bytes: the 7 low bits of each.
Synchsafe(b) ==
  (b[1] % 128) * 2^21 + (b[2] % 128) * 2^14 + (b[3] % 128) * 2^7 + (b[4] % 128)

\* C32: the leading-tag size computed from the size bytes b0..b3 is the
\* synchsafe integer (b0 mod 128)*2^21 + (b1 mod 128)*2^14 + (b2 mod 128)*2^7 +
\* (b3 mod 128), for every value 0..255 of each byte, and the first-frame offset
\* is 10 + size.
Cex_C32 ==
  (IsSome(probe) /\ Unwrap(probe).op = "analyze_mp3_file" /\ file.id3) =>
    /\ parse_id3v2_size(file.size_bytes) = Synchsafe(file.size_bytes)
    /\ Unwrap(probe).result.first_frame_offset = Some(10 + Synchsafe(file.size_bytes))

\* C33: whenever the actor, while it exists (it has not left its loop, which it
\* does only once every handle to the player is gone), holds no sink, the
\* shared state is the idle state: current_track absent, is_playing false,
\* current_time 0 and duration 0; before any command the volume is 1.0. This
\* covers the state after Stop and after a PlayTrack that fails from idle.
Thm_C33 ==
  /\ (actorPc # "stopped" /\ current_sink = None) =>
       PlaybackStateOf(state) = StoppedState(state.volume)
  /\ sent = 0 => (current_sink = None /\ state.volume = F(10))

\* The only command handled so far is a PlayTrack of a missing file, which has
\* failed from idle.
Wit_C33 ==
  /\ Selecting /\ current_sink = None
  /\ handledSeq = 1 /\ failed
  /\ \E c \in Callers : Handled(c) /\ slot[c] = ErrNotFound

\* The actor holds a sink that has been started and is neither paused nor
\* stopped.
SinkRunning ==
  IsSome(current_sink) /\ ~Unwrap(current_sink).paused /\ ~Unwrap(current_sink).stopped

\* C34: between actor steps is_playing is true exactly when the actor holds a
\* sink that has been started and is neither paused nor stopped.
Cex_C34 == Selecting => (state.is_playing <=> SinkRunning)

\* C35: a command that returns an error (Seek in any state; PlayTrack failing on
\* a missing, empty or undecodable file, also over a playing or paused track)
\* leaves every field of the PlaybackState snapshot unchanged and emits no
\* event, in each step of its handler.
Thm_C35 ==
  [][/\ HandlesSeek =>
          /\ slot'[Recv(queue).caller] = ErrSeek
          /\ PlaybackStateOf(state') = PlaybackStateOf(state)
          /\ events' = <<>>
     /\ PlayTrackBegins =>
          /\ PlaybackStateOf(state') = PlaybackStateOf(state)
          /\ events' = <<>>
     /\ PlayTrackFails =>
          /\ PlaybackStateOf(state') = PlaybackStateOf(state)
          /\ events' = <<>>]_vars

\* A PlayTrack of an undecodable file has just failed over a track that was
\* part of the way through: the snapshot still shows that track.
Wit_C35 ==
  /\ Selecting /\ events = <<>>
  /\ \E c \in Callers : Handled(c) /\ slot[c] = ErrDecode
  /\ IsSome(current_sink) /\ Unwrap(current_sink).stopped
  /\ IsSome(state.current_track) /\ state.current_time > 0

\* C36: for each successful PlayTrack at most one TrackFinished event is emitted
\* before the next TrackStarted or TrackStopped, whatever Pause, Resume,
\* SetVolume and Seek commands and ticks follow the end of the track.
Cex_C36 == ~stream.refinished

\* C37: at every tick handled while playing, current_time before the clamp at
\* duration equals the total time the track has spent in the playing state since
\* it started: time spent paused is not counted and no played time is lost
\* across a Pause followed by Resume, wherever the Pause falls between two ticks.
Cex_C37 ==
  [][(Tick /\ ~stream.finished /\ (Advancing \/ PastDuration)) =>
       state.current_time + Unwrap(state.playback_start_time) = stream.played]_vars

\* C38: whenever the actor holds a sink, between actor steps that sink's volume
\* equals the stored volume: PlayTrack creates the sink at the stored volume and
\* every SetVolume updates both to the same clamped value.
Cex_C38 ==
  (Selecting /\ IsSome(current_sink)) => FEq(Unwrap(current_sink).volume, state.volume)

\* C39: a snapshot returned by get_playback_state while the actor takes its
\* steps is the shared state as it is between two actor steps, never a mixture
\* of fields from before and after one, so every snapshot satisfies is_playing
\* implies current_track present, and current_time <= duration.
Cex_C39 ==
  (IsSome(returned) /\ Unwrap(returned).op = "get_playback_state") =>
    LET snapshot == Unwrap(returned).value
    IN /\ snapshot = PlaybackStateOf(state)
       /\ snapshot.is_playing => IsSome(snapshot.current_track)
       /\ snapshot.current_time <= snapshot.duration

\* The stream after the first i events of this step have been sent.
StreamAfter(i) == NoteAll(stream, SubSeq(events', 1, i))

\* C40: every TrackPaused, TrackResumed, TrackFinished, TrackStopped and
\* PositionChanged event is preceded by a TrackStarted with no TrackStopped in
\* between, and between two consecutive TrackPaused events there is always a
\* TrackResumed or a TrackStarted.
Thm_C40 ==
  [][\A i \in DOMAIN events' :
       /\ events'[i].type \in {"TrackPaused", "TrackResumed", "TrackFinished",
                                "TrackStopped", "PositionChanged"}
            => StreamAfter(i - 1).started
       /\ events'[i].type = "TrackPaused" => ~StreamAfter(i - 1).paused]_vars

\* A track has been started and paused, and the last of the commands has been
\* handled on the paused track without an event: the stream shows the session
\* open, with one TrackPaused not yet followed by TrackResumed or TrackStarted.
Wit_C40 ==
  /\ Selecting /\ events = <<>> /\ Paused
  /\ stream.started /\ stream.paused /\ ~stream.finished
  /\ handledSeq = MaxCmds
  /\ \E c \in Callers : Handled(c) /\ slot[c] = Ok

====
